---- MODULE Spec2Model ----
(***************************************************************************)
(* A model of two programs of the repository:                              *)
(*                                                                         *)
(*   - torchgeo/datasets/cowc.py: the _COWC dataset class (constructor,    *)
(*     download(), _check_integrity(), __getitem__(), __len__()), with     *)
(*     the local dataset directory and the remote server as environment;   *)
(*   - tests/data/western_usa_live_fuel_moisture/data.py: the fixture      *)
(*     generator script.                                                   *)
(*                                                                         *)
(* Texts are sequences of tokens (a token is a TLA+ string), so that the   *)
(* string operations of the code (concatenation, endswith, [:-4],          *)
(* splitting a line at the delimiter, int()) are computed and not assumed. *)
(* A file's data is a sequence of lines, a line a sequence of tokens.      *)
(***************************************************************************)
EXTENDS Integers, Sequences, FiniteSets, TLC

VARIABLES
    dir,         \* the local directory root/base_folder: path -> file or absent
    dir0,        \* dir as it was when the running constructor call began
    pc,          \* position of the constructor call: "start" before the first
                 \* call, "idle" after a call that raised, "ready" with an instance
    split,       \* argument split of the constructor call
    download,    \* argument download of the constructor call
    transforms,  \* self.transforms: "None" or the name of a user callable
    i,           \* loop position of download()'s for loop (1-based)
    fetched,     \* URLs requested from the remote server during this call
    extracted,   \* listed files extracted or decompressed during this call
    err,         \* the exception the last call ended with ("" for none)
    images,      \* self.images
    targets,     \* self.targets
    ret,         \* what the last __getitem__ call did
    fx_tree,     \* fixture script: the su_sar_moisture_content directory
    fx_archive,  \* fixture script: su_sar_moisture_content.tar.gz
    fx_pc,       \* fixture script: position in __main__
    fx_i,        \* fixture script: loop variable i of __main__
    fx_runs,     \* fixture script: number of completed runs
    fx_first,    \* fixture script: the tree the first completed run left
    fx_prior     \* fixture script: the tree before the first run

cowcVars == <<dir, dir0, pc, split, download, transforms, i, fetched,
              extracted, err, images, targets, ret>>
fxVars == <<fx_tree, fx_archive, fx_pc, fx_i, fx_runs, fx_first, fx_prior>>
vars == <<dir, dir0, pc, split, download, transforms, i, fetched,
          extracted, err, images, targets, ret,
          fx_tree, fx_archive, fx_pc, fx_i, fx_runs, fx_first, fx_prior>>

(***************************************************************************)
(* Bounds.                                                                 *)
(***************************************************************************)
\* Number of image archives (.tbz) of the dataset variant that are modelled;
\* COWCDetection lists six.
NumTbz == 1

\* Number of times the fixture script is run.
MaxRuns == 2

(***************************************************************************)
(* The dataset descriptor: COWCDetection.                                  *)
(***************************************************************************)
base_url == "https://gdo152.llnl.gov/cowc/download/cowc/datasets/patch_sets/detection/"

ArchiveStems ==
    <<"Toronto_ISPRS", "Selwyn_LINZ", "Potsdam_ISPRS", "Vaihingen_ISPRS",
      "Columbus_CSUAV_AFRL", "Utah_AGRC">>

\* filenames: the two compressed split lists, then the image archives.
filenames ==
    << <<"COWC_", "train", "_list_detection.txt", ".bz2">>,
       <<"COWC_", "test", "_list_detection.txt", ".bz2">> >>
    \o [k \in 1..NumTbz |-> <<"COWC_Detection_", ArchiveStems[k], ".tbz">>]

\* filename.format(split)
filename(s) == <<"COWC_", s, "_list_detection.txt">>

NFiles == Len(filenames)

(***************************************************************************)
(* Files and their contents.                                               *)
(***************************************************************************)
Absent == [ex |-> FALSE, data |-> <<>>]
File(d) == [ex |-> TRUE, data |-> d]

\* The bytes the dataset's publisher serves under a listed name, and bytes
\* that differ from them (a truncated or corrupted copy).
PublishedBytes(name) == << <<"published">> \o name >>
Corrupt == << <<"corrupt">> >>
ImageBytes == << <<"image">> >>

\* The digest of a file's data. MD5 is taken to be collision free on the
\* contents of the model: the data stands for its digest.
Md5(d) == d

\* md5s: the expected digests, in the order of filenames.
md5s == [n \in 1..NFiles |-> Md5(PublishedBytes(filenames[n]))]

\* The image an image archive holds (one image stands for its members).
Member(k) == <<ArchiveStems[k], "/img.png">>
Members(name) ==
    {Member(k) : k \in {k \in 1..NumTbz : filenames[2 + k] = name}}

\* The published split lists: one line per image, "path label".
Line(path, label) == path \o <<" ">> \o label
PublishedSplit(s) ==
    IF s = "train"
    THEN [k \in 1..NumTbz |->
            Line(Member(k), IF k % 2 = 1 THEN <<"1">> ELSE <<"0">>)]
    ELSE [k \in 1..NumTbz |->
            Line(Member(NumTbz + 1 - k), IF k % 2 = 1 THEN <<"0">> ELSE <<"1", "2">>)]

SplitOfArchive(name) == name[2]

\* Split lists a user may have left in the directory: an empty file, rows
\* with a non-numeric or empty label, rows with one field, with three
\* fields, an empty line, signed labels.
UserSplits ==
    { <<>>,
      << Line(Member(1), <<"1">>), Line(Member(1), <<"x">>) >>,
      << Line(Member(1), <<"-", "3">>), Line(<<"lost.png">>, <<"5">>),
         Line(Member(1), <<"0", "7">>) >>,
      << Line(Member(1), <<"1">>) \o <<" ">> \o <<"0">>, Member(1) \o <<" ">> >>,
      << Line(Member(1), <<"1">>), Member(1) >>,
      << Line(Member(1), <<"1">>), <<>>, Line(Member(1), <<"0">>) >> }

ArchPaths == {filenames[n] : n \in 1..NFiles}
TxtPaths == {filename("train"), filename("test")}
ImgPaths == {Member(k) : k \in 1..NumTbz}
Paths == ArchPaths \cup TxtPaths \cup ImgPaths

Exists(d, p) == p \in DOMAIN d /\ d[p].ex
Write(d, p, data) == [q \in DOMAIN d \cup {p} |-> IF q = p THEN File(data) ELSE d[q]]

(***************************************************************************)
(* String and list operations of the code.                                 *)
(***************************************************************************)
\* name.endswith(suffix), for the four-character suffixes ".tbz" and ".bz2"
EndsWith(name, suffix) == Len(name) > 0 /\ name[Len(name)] = suffix

\* filepath[:-4]: the path without its last four characters
DecompressTargetKeep(filepath) == filepath
DecompressTarget(filepath) == SubSeq(filepath, 1, Len(filepath) - 1)

\* base_url + filename
UrlNoBase(n) == filenames[n]
Url(n) == <<base_url>> \o filenames[n]

\* csv.reader(f, delimiter=" "): the fields of one line. An empty line is
\* the empty row; otherwise the line is cut at every delimiter.
RECURSIVE CutAtSpaces(_)
CutAtSpaces(s) ==
    IF s = <<>> THEN << <<>> >>
    ELSE IF Head(s) = " " THEN << <<>> >> \o CutAtSpaces(Tail(s))
    ELSE LET r == CutAtSpaces(Tail(s))
         IN  << <<Head(s)>> \o Head(r) >> \o Tail(r)

CsvRow(line) == IF line = <<>> THEN <<>> ELSE CutAtSpaces(line)

\* int(s) for a field of the split list: an optional sign, then one or more
\* decimal digits; anything else is a ValueError.
DigitChars == <<"0", "1", "2", "3", "4", "5", "6", "7", "8", "9">>
IsDigit(c) == \E n \in 1..10 : DigitChars[n] = c
DigitVal(c) == (CHOOSE n \in 1..10 : DigitChars[n] = c) - 1

RECURSIVE Decimal(_)
Decimal(s) ==
    IF s = <<>> THEN 0
    ELSE 10 * Decimal(SubSeq(s, 1, Len(s) - 1)) + DigitVal(s[Len(s)])

AllDigits(s) == Len(s) > 0 /\ \A n \in 1..Len(s) : IsDigit(s[n])

ParseIntUnsigned(s) ==
    IF AllDigits(s) THEN [ok |-> TRUE, val |-> Decimal(s)]
    ELSE [ok |-> FALSE, val |-> 0]
ParseInt(s) ==
    IF s # <<>> /\ Head(s) \in {"-", "+"}
    THEN IF AllDigits(Tail(s))
         THEN [ok |-> TRUE,
               val |-> IF Head(s) = "-" THEN 0 - Decimal(Tail(s)) ELSE Decimal(Tail(s))]
         ELSE [ok |-> FALSE, val |-> 0]
    ELSE ParseIntUnsigned(s)

\* list[index]: Python's indexing of a list with an int. A negative index
\* counts from the end; outside -len..len-1 it is an IndexError.
InRangeFromZero(seq, index) == 0 <= index /\ index < Len(seq)
InRange(seq, index) == 0 - Len(seq) <= index /\ index < Len(seq)
PositionFromEnd(seq, index) == IF index >= 0 THEN Len(seq) - index ELSE 0 - index
Position(seq, index) == IF index >= 0 THEN index + 1 ELSE Len(seq) + index + 1


(***************************************************************************)
(* Library routines the class calls.                                       *)
(***************************************************************************)
\* torchvision.datasets.utils.check_integrity(fpath, md5): the file exists
\* and, unless md5 is None, its digest is the expected one.
None == << <<"None">> >>
FileOk(d, fpath, md5) == Exists(d, fpath) /\ (md5 = None \/ Md5(d[fpath].data) = md5)

\* What a GET of url can do: deliver the published bytes, deliver other
\* bytes (a truncated or corrupted transfer), or raise a URLError, with or
\* without a partial file left behind. A URL the server does not know only
\* raises.
Known(url) == \E n \in 1..NFiles : url = <<base_url>> \o filenames[n]
Responses(url) ==
    (IF Known(url)
     THEN {[st |-> "ok", wrote |-> TRUE, data |-> PublishedBytes(Tail(url))],
           [st |-> "ok", wrote |-> TRUE, data |-> Corrupt]}
     ELSE {})
    \cup {[st |-> "URLError", wrote |-> FALSE, data |-> <<>>],
          [st |-> "URLError", wrote |-> TRUE, data |-> Corrupt]}

\* bz2.BZ2File(filepath).read(): the decompressed lines, for the published
\* bytes of a compressed split list; other bytes are not a bz2 stream.
IsBz2(data) == \E n \in 1..2 : data = PublishedBytes(filenames[n])
Bunzip(data) == PublishedSplit(SplitOfArchive(Tail(data[1])))

\* tarfile.open(path): other bytes than an archive's are not a tar file.
IsTar(data) == \E n \in 3..NFiles : data = PublishedBytes(filenames[n])
TarMembers(data) == Members(Tail(data[1]))

RECURSIVE WriteAll(_, _, _)
WriteAll(d, ps, data) ==
    IF ps = {} THEN d
    ELSE LET p == CHOOSE q \in ps : TRUE
         IN  WriteAll(Write(d, p, data), ps \ {p}, data)

(***************************************************************************)
(* _COWC._check_integrity                                                  *)
(***************************************************************************)
CheckIntegrityFirst(d) == FileOk(d, filenames[1], md5s[1])
CheckIntegrity(d) ==
    \A n \in 1..NFiles : FileOk(d, filenames[n], md5s[n])

(***************************************************************************)
(* _COWC.__init__, up to the call of download()                            *)
(***************************************************************************)
Splits == {"train", "test"}
SplitArgs == {"train", "test", "val"}
TransformArgs == {"None", "Relabel"}

\* A callable a user may pass as transforms: it returns the image and
\* another label.
Relabel(image, target) == <<image, target + 1>>

NoRet == [called |-> FALSE, index |-> 0, exc |-> "", image |-> <<>>, label |-> 0]

ErrCorruptFile == "RuntimeError: File not found or corrupted."
ErrCorruptDataset == "RuntimeError: Dataset not found or corrupted. You can use download=True to download it"

Construct(s, dl, tf) ==
    /\ pc \in {"start", "idle", "ready"}
    /\ split' = s
    /\ download' = dl
    /\ transforms' = tf
    /\ dir0' = dir
    /\ i' = 0
    /\ fetched' = <<>>
    /\ extracted' = {}
    /\ images' = <<>>
    /\ targets' = <<>>
    /\ ret' = NoRet
    /\ IF s \notin Splits
       THEN pc' = "idle" /\ err' = "AssertionError"
       ELSE pc' = (IF dl THEN "download" ELSE "verify") /\ err' = ""
    /\ UNCHANGED <<dir, fxVars>>

(***************************************************************************)
(* _COWC.download                                                          *)
(***************************************************************************)
\* if self._check_integrity(): print(...); return
AlreadyVerifiedNever == FALSE
AlreadyVerified == CheckIntegrity(dir)

Download ==
    /\ pc = "download"
    /\ IF AlreadyVerified
       THEN pc' = "verify" /\ i' = i
       ELSE pc' = "fetch" /\ i' = 1
    /\ UNCHANGED <<dir, dir0, split, download, transforms, fetched, extracted,
                   err, images, targets, ret, fxVars>>

\* the argument md5=md5 of the call of download_url
Md5ArgNone(n) == None
Md5Arg(n) == md5s[n]

\* download_url's check of the local file, before it fetches, and of the
\* file it fetched
LocalCopyOk(d, n) == FileOk(d, filenames[n], Md5Arg(n))
FetchVerified(d, n) == FileOk(d, filenames[n], Md5Arg(n))

\* download_url(base_url + filename, root/base_folder, filename, md5): a
\* local copy that verifies is kept and nothing is requested; otherwise the
\* file is requested (one request stands for the library's attempt over
\* https and its second attempt over http), written over the local copy and
\* verified, and a file that does not verify is a RuntimeError.
DownloadUrl ==
    /\ pc = "fetch"
    /\ IF LocalCopyOk(dir, i)
       THEN /\ pc' = "extract"
            /\ UNCHANGED <<dir, fetched, err>>
       ELSE \E r \in Responses(Url(i)) :
              LET d2 == IF r.wrote THEN Write(dir, filenames[i], r.data) ELSE dir
              IN  /\ fetched' = Append(fetched, Url(i))
                  /\ dir' = d2
                  /\ IF r.st # "ok"
                     THEN pc' = "idle" /\ err' = r.st
                     ELSE IF FetchVerified(d2, i)
                          THEN pc' = "extract" /\ err' = err
                          ELSE pc' = "idle" /\ err' = ErrCorruptFile
    /\ UNCHANGED <<dir0, split, download, transforms, i, extracted,
                   images, targets, ret, fxVars>>

\* the extraction of the file just acquired, by its suffix
Extract ==
    /\ pc = "extract"
    /\ LET name == filenames[i]
           data == dir[name].data
           next == IF i = NFiles THEN "verify" ELSE "fetch"
       IN  IF EndsWith(name, ".tbz")
           THEN IF Exists(dir, name) /\ IsTar(data)
                THEN /\ dir' = WriteAll(dir, TarMembers(data), ImageBytes)
                     /\ extracted' = extracted \cup {i}
                     /\ pc' = next /\ i' = i + 1 /\ err' = err
                ELSE /\ pc' = "idle" /\ err' = "ReadError"
                     /\ UNCHANGED <<dir, extracted, i>>
           ELSE IF EndsWith(name, ".bz2")
           THEN IF Exists(dir, name) /\ IsBz2(data)
                THEN /\ dir' = Write(dir, DecompressTarget(name), Bunzip(data))
                     /\ extracted' = extracted \cup {i}
                     /\ pc' = next /\ i' = i + 1 /\ err' = err
                ELSE /\ pc' = "idle" /\ err' = "OSError"
                     /\ UNCHANGED <<dir, extracted, i>>
           ELSE /\ pc' = next /\ i' = i + 1
                /\ UNCHANGED <<dir, extracted, err>>
    /\ UNCHANGED <<dir0, split, download, transforms, fetched,
                   images, targets, ret, fxVars>>

(***************************************************************************)
(* _COWC.__init__, after the call of download()                            *)
(***************************************************************************)
Verify ==
    /\ pc = "verify"
    /\ IF ~CheckIntegrity(dir)
       THEN pc' = "idle" /\ err' = ErrCorruptDataset
       ELSE pc' = "index" /\ err' = err
    /\ UNCHANGED <<dir, dir0, split, download, transforms, i, fetched,
                   extracted, images, targets, ret, fxVars>>

\* row[0] and row[1] can be read
RowOkThree(row) == Len(row) >= 3
RowOk(row) == Len(row) >= 2

\* self.images.append(row[0]); self.targets.append(row[1])
ImageField(row) == row[1]
TargetFieldFirst(row) == row[1]
TargetField(row) == row[2]

BuildIndex ==
    /\ pc = "index"
    /\ LET path == filename(split)
           lines == dir[path].data
           rows == [n \in 1..Len(lines) |-> CsvRow(lines[n])]
       IN  IF ~Exists(dir, path)
           THEN /\ pc' = "idle" /\ err' = "FileNotFoundError"
                /\ UNCHANGED <<images, targets>>
           ELSE IF \E n \in 1..Len(rows) : ~RowOk(rows[n])
           THEN /\ pc' = "idle" /\ err' = "IndexError"
                /\ UNCHANGED <<images, targets>>
           ELSE /\ pc' = "ready" /\ err' = err
                /\ images' = [n \in 1..Len(rows) |-> ImageField(rows[n])]
                /\ targets' = [n \in 1..Len(rows) |-> TargetField(rows[n])]
    /\ UNCHANGED <<dir, dir0, split, download, transforms, i, fetched,
                   extracted, ret, fxVars>>

(***************************************************************************)
(* _COWC.__len__, _COWC._load_image, _COWC.__getitem__                     *)
(***************************************************************************)
DatasetLen == Len(targets)

Indices == (0 - NumTbz - 3)..(NumTbz + 2)

Raise(index, exc) ==
    [called |-> TRUE, index |-> index, exc |-> exc, image |-> <<>>, label |-> 0]

GetItem(index) ==
    /\ pc = "ready"
    /\ ret' =
         IF ~InRange(images, index) THEN Raise(index, "IndexError")
         ELSE LET path == images[Position(images, index)]
              IN  IF ~Exists(dir, path) THEN Raise(index, "FileNotFoundError")
                  ELSE IF ~InRange(targets, index) THEN Raise(index, "IndexError")
                  ELSE LET target == ParseInt(targets[Position(targets, index)])
                       IN  IF ~target.ok THEN Raise(index, "ValueError")
                           ELSE LET out == IF transforms = "None"
                                           THEN <<path, target.val>>
                                           ELSE Relabel(path, target.val)
                                IN  [called |-> TRUE, index |-> index, exc |-> "",
                                     image |-> out[1], label |-> out[2]]
    /\ UNCHANGED <<dir, dir0, pc, split, download, transforms, i, fetched,
                   extracted, err, images, targets, fxVars>>

(***************************************************************************)
(* The fixture generator: tests/data/western_usa_live_fuel_moisture/data.py *)
(***************************************************************************)
NUM_SAMPLES == 3

data_dir == "su_sar_moisture_content"

\* LABELS and STAC: the documents, as the ordered key/value pairs of the
\* dict literals; a nested value is one token.
LABELS ==
    << <<"type", "\"Feature\"">>,
       <<"properties", "{percent(t): 132.6666667, site: Blackstone, ...}">>,
       <<"geometry", "{type: Point, coordinates: [-115.8855556, 42.44111111]}">> >>

STAC ==
    << <<"assets", "{labels: {href: labels.geojson, ...}}">>,
       <<"bbox", "[-115.8855556, 42.44111111, -115.8855556, 42.44111111]">>,
       <<"collection", "\"su_sar_moisture_content\"">>,
       <<"geometry", "{coordinates: [-115.8855556, 42.44111111], type: Point}">>,
       <<"id", "\"su_sar_moisture_content_0001\"">>,
       <<"links", "[{href: ../collection.json, rel: collection}, ...]">>,
       <<"properties", "{datetime: 2015-06-30T00:00:00Z, ...}">>,
       <<"stac_extensions", "[\"label\"]">>,
       <<"stac_version", "\"1.0.0-beta.2\"">>,
       <<"type", "\"Feature\"">> >>

\* json.dump(obj, f): the items in the order of the dict, "key": value,
\* separated by ", ", between braces, on one line.
RECURSIVE JsonItems(_)
JsonItems(pairs) ==
    IF pairs = <<>> THEN <<>>
    ELSE <<"\"", Head(pairs)[1], "\"", ": ", Head(pairs)[2]>>
         \o (IF Len(pairs) > 1 THEN <<", ">> ELSE <<>>)
         \o JsonItems(Tail(pairs))
JsonDump(pairs) == << <<"{">> \o JsonItems(pairs) \o <<"}">> >>

\* data_dir + f"_{i}"
SampleName(n) == <<data_dir, "_", DigitChars[n + 1]>>

\* An entry of the su_sar_moisture_content directory: nothing, a plain
\* file, or a directory with or without labels.geojson, stac.json and
\* another file.
NoKid == [kind |-> "none", labels |-> Absent, stac |-> Absent, junk |-> FALSE]
EmptyDir == [kind |-> "dir", labels |-> Absent, stac |-> Absent, junk |-> FALSE]
StaleKids ==
    { NoKid,
      EmptyDir,
      [kind |-> "file", labels |-> Absent, stac |-> Absent, junk |-> FALSE],
      [kind |-> "dir", labels |-> File(<< <<"{}">> >>), stac |-> Absent, junk |-> TRUE],
      [kind |-> "dir", labels |-> File(JsonDump(LABELS)), stac |-> File(JsonDump(STAC)),
       junk |-> FALSE] }

\* The names an entry may have before the first run: the sample
\* directories and one more, left by a run with a larger NUM_SAMPLES.
FxNames == {SampleName(n) : n \in 0..NUM_SAMPLES}

NoKids == [name \in FxNames |-> NoKid]
NoTree == [kind |-> "none", kids |-> NoKids]
NoArchive == [ex |-> FALSE, kids |-> NoKids, stamp |-> "t0"]
Stamps == {"t1", "t2"}

\* os.path.isdir(data_dir)
IsDirNever(tree) == FALSE
IsDir(tree) == tree.kind = "dir"

\* if os.path.isdir(data_dir): shutil.rmtree(data_dir)
RemoveOld ==
    /\ fx_pc = "start"
    /\ fx_tree' = IF IsDir(fx_tree) THEN NoTree ELSE fx_tree
    /\ fx_pc' = "mkroot"
    /\ UNCHANGED <<fx_archive, fx_i, fx_runs, fx_first, fx_prior, cowcVars>>

\* os.makedirs(os.path.join(os.getcwd(), data_dir))
MakeRoot ==
    /\ fx_pc = "mkroot"
    /\ IF fx_tree.kind # "none"
       THEN fx_pc' = "failed" /\ UNCHANGED <<fx_tree, fx_i>>
       ELSE /\ fx_tree' = [kind |-> "dir", kids |-> NoKids]
            /\ fx_i' = 0
            /\ fx_pc' = "loop"
    /\ UNCHANGED <<fx_archive, fx_runs, fx_first, fx_prior, cowcVars>>

\* for i in range(NUM_SAMPLES): os.makedirs(sample_dir)
MakeSample ==
    /\ fx_pc = "loop"
    /\ fx_i < NUM_SAMPLES
    /\ LET sample_dir == SampleName(fx_i)
       IN  IF fx_tree.kind # "dir" \/ fx_tree.kids[sample_dir].kind # "none"
           THEN fx_pc' = "failed" /\ UNCHANGED fx_tree
           ELSE /\ fx_tree' = [fx_tree EXCEPT !.kids[sample_dir] = EmptyDir]
                /\ fx_pc' = "labels"
    /\ UNCHANGED <<fx_archive, fx_i, fx_runs, fx_first, fx_prior, cowcVars>>

\* create_file: json.dump(LABELS, f) into labels.geojson
WriteLabels ==
    /\ fx_pc = "labels"
    /\ fx_tree' = [fx_tree EXCEPT !.kids[SampleName(fx_i)].labels = File(JsonDump(LABELS))]
    /\ fx_pc' = "stac"
    /\ UNCHANGED <<fx_archive, fx_i, fx_runs, fx_first, fx_prior, cowcVars>>

\* create_file: json.dump(STAC, f) into stac.json; the loop goes on
WriteStac ==
    /\ fx_pc = "stac"
    /\ fx_tree' = [fx_tree EXCEPT !.kids[SampleName(fx_i)].stac = File(JsonDump(STAC))]
    /\ fx_i' = fx_i + 1
    /\ fx_pc' = "loop"
    /\ UNCHANGED <<fx_archive, fx_runs, fx_first, fx_prior, cowcVars>>

\* shutil.make_archive(data_dir, "gztar", ".", data_dir): the archive holds
\* the tree and the time it was made at
Compress ==
    /\ fx_pc = "loop"
    /\ fx_i >= NUM_SAMPLES
    /\ \E t \in Stamps :
         fx_archive' = [ex |-> TRUE, kids |-> fx_tree.kids, stamp |-> t]
    /\ fx_pc' = "md5"
    /\ UNCHANGED <<fx_tree, fx_i, fx_runs, fx_first, fx_prior, cowcVars>>

\* the checksum is computed and printed; the run ends
Checksum ==
    /\ fx_pc = "md5"
    /\ fx_runs' = fx_runs + 1
    /\ fx_first' = IF fx_runs = 0 THEN fx_tree ELSE fx_first
    /\ fx_pc' = "done"
    /\ UNCHANGED <<fx_tree, fx_archive, fx_i, fx_prior, cowcVars>>

\* the script is run again
RunAgain ==
    /\ fx_pc = "done"
    /\ fx_runs < MaxRuns
    /\ fx_pc' = "start"
    /\ UNCHANGED <<fx_tree, fx_archive, fx_i, fx_runs, fx_first, fx_prior, cowcVars>>

FxInitIdle ==
    /\ fx_tree = NoTree
    /\ fx_archive = NoArchive
    /\ fx_pc = "off"
    /\ fx_i = 0
    /\ fx_runs = 0
    /\ fx_first = NoTree
    /\ fx_prior = NoTree

(***************************************************************************)
(* The specification of the dataset class.                                 *)
(***************************************************************************)
\* The directory may hold anything when the program starts: each listed
\* file missing, intact or corrupted; each split list missing, as
\* published or as a user left it; each image missing or present. Two
\* families of directories are explored: any mix of listed files with
\* split lists that are missing or as published, and listed files that are
\* all in the same condition with one split list missing and the other
\* missing, as published or as a user left it.
ArchFile(p, st) ==
    IF st = "missing" THEN Absent
    ELSE IF st = "good" THEN File(PublishedBytes(p)) ELSE File(Corrupt)

ArchConditions == {"missing", "good", "bad"}
TxtPlain(p) == {Absent, File(PublishedSplit(p[2]))}
TxtAny(p) == TxtPlain(p) \cup {File(u) : u \in UserSplits}

MixedArchives ==
    { [a |-> a, t |-> t] :
        a \in [ArchPaths -> ArchConditions],
        t \in {t \in [TxtPaths -> UNION {TxtPlain(p) : p \in TxtPaths}] :
                 \A p \in TxtPaths : t[p] \in TxtPlain(p)} }
MixedSplits ==
    { [a |-> a, t |-> t] :
        a \in {[p \in ArchPaths |-> st] : st \in ArchConditions},
        t \in {t \in [TxtPaths -> UNION {TxtAny(p) : p \in TxtPaths}] :
                 /\ \A p \in TxtPaths : t[p] \in TxtAny(p)
                 /\ \E p \in TxtPaths : t[p] = Absent} }

Init ==
    /\ \E at \in MixedArchives \cup MixedSplits,
          m \in [ImgPaths -> {Absent, File(ImageBytes)}] :
          dir = [p \in Paths |->
                   IF p \in ArchPaths THEN ArchFile(p, at.a[p])
                   ELSE IF p \in TxtPaths THEN at.t[p] ELSE m[p]]
    /\ dir0 = dir
    /\ pc = "start"
    /\ split = "train"
    /\ download = FALSE
    /\ transforms = "None"
    /\ i = 0
    /\ fetched = <<>>
    /\ extracted = {}
    /\ err = ""
    /\ images = <<>>
    /\ targets = <<>>
    /\ ret = NoRet
    /\ FxInitIdle

Next ==
    \/ \E s \in SplitArgs, dl \in BOOLEAN, tf \in TransformArgs : Construct(s, dl, tf)
    \/ Download
    \/ DownloadUrl
    \/ Extract
    \/ Verify
    \/ BuildIndex
    \/ \E index \in Indices : GetItem(index)

Spec == Init /\ [][Next]_vars


(***************************************************************************)
(* Notions the properties are stated with. They are written from the       *)
(* directory and the descriptor, not from the operators of the class.      *)
(***************************************************************************)
Range(seq) == {seq[n] : n \in 1..Len(seq)}
Count(seq, x) == Cardinality({n \in 1..Len(seq) : seq[n] = x})

\* the listed file n is in d with the published bytes
ValidIn(d, n) ==
    filenames[n] \in DOMAIN d /\ d[filenames[n]] = File(PublishedBytes(filenames[n]))
AllValidIn(d) == \A n \in 1..NFiles : ValidIn(d, n)

\* the URL of the listed file n
ExpectedUrl(n) == <<base_url>> \o filenames[n]

\* download()'s loop has dealt with the acquisition of file n
Decided(n) == n < i \/ (n = i /\ pc # "fetch")

\* download() was called by the running or last constructor call, and has
\* returned normally
DownloadReturned ==
    /\ download
    /\ \/ pc \in {"verify", "index", "ready"}
       \/ pc = "idle" /\ err \in {ErrCorruptDataset, "FileNotFoundError", "IndexError"}

\* the lines of the split list of the instance, and the number of fields
\* of a line: one more than its delimiters, none for an empty line
SplitLines == dir[filename(split)].data
FieldCount(line) ==
    IF line = <<>> THEN 0
    ELSE 1 + Cardinality({n \in 1..Len(line) : line[n] = " "})
SecondField(line) ==
    LET sp == {n \in 1..Len(line) : line[n] = " "}
        a == CHOOSE n \in sp : \A m \in sp : n <= m
        rest == {n \in sp : n > a}
        b == IF rest = {} THEN Len(line) + 1
             ELSE CHOOSE n \in rest : \A m \in rest : n <= m
    IN  SubSeq(line, a + 1, b - 1)
FirstField(line) ==
    LET sp == {n \in 1..Len(line) : line[n] = " "}
        a == CHOOSE n \in sp : \A m \in sp : n <= m
    IN  SubSeq(line, 1, a - 1)

\* a decimal integer literal of at most two digits after an optional sign,
\* and its value
IsLiteral(s) ==
    /\ s # <<>>
    /\ LET body == IF Head(s) \in {"-", "+"} THEN Tail(s) ELSE s
       IN  /\ Len(body) \in {1, 2}
           /\ \A n \in 1..Len(body) : \E a \in 0..9 : body[n] = DigitChars[a + 1]
LiteralValue(s) ==
    LET body == IF Head(s) \in {"-", "+"} THEN Tail(s) ELSE s
        mag == IF Len(body) = 1
               THEN CHOOSE a \in 0..9 : body = <<DigitChars[a + 1]>>
               ELSE CHOOSE v \in 0..99 :
                      body = <<DigitChars[(v \div 10) + 1], DigitChars[(v % 10) + 1]>>
    IN  IF Head(s) = "-" THEN 0 - mag ELSE mag

C4_NoDownloadInvalidRaises ==
    (/\ ~download
     /\ split \in Splits
     /\ pc \notin {"start", "verify"}
     /\ ~AllValidIn(dir0)) =>
        /\ pc = "idle"
        /\ err = ErrCorruptDataset
        /\ fetched = <<>>
        /\ extracted = {}
        /\ dir = dir0
        /\ images = <<>>
        /\ targets = <<>>
        /\ ~ret.called

C4_Witness ==
    /\ ~download
    /\ pc = "idle"
    /\ err = ErrCorruptDataset
    /\ \E n, m \in 1..NFiles : ValidIn(dir0, n) /\ ~ValidIn(dir0, m)

(***************************************************************************)
(* C5. In download() the decision to fetch is made file by file: of the    *)
(* files the loop has dealt with, those that were in the directory with    *)
(* the expected MD5 were not requested, the others were requested, from    *)
(* base_url + filename; nothing else is requested.                         *)
(***************************************************************************)
C5_FetchDecidedPerFile ==
    /\ \A u \in Range(fetched) :
         \E n \in 1..NFiles : u = ExpectedUrl(n) /\ Decided(n)
    /\ \A n \in 1..NFiles :
         Decided(n) => (ExpectedUrl(n) \in Range(fetched) <=> ~ValidIn(dir0, n))

C5_Witness ==
    \E n, m \in 1..NFiles :
        /\ n < m
        /\ Decided(n) /\ Decided(m)
        /\ ~ValidIn(dir0, n) /\ ExpectedUrl(n) \in Range(fetched)
        /\ ValidIn(dir0, m) /\ ExpectedUrl(m) \notin Range(fetched)
        /\ \E k \in 1..NFiles : k > m /\ ~ValidIn(dir0, k)

(***************************************************************************)
(* C7. A file whose MD5 still differs after it was fetched ends the call   *)
(* with the RuntimeError of download_url: the file was requested once, it  *)
(* is not extracted or decompressed, no later file of the list is          *)
(* requested or extracted, and no index is built. No file is requested     *)
(* twice in one call.                                                      *)
(***************************************************************************)
C7_MismatchAfterFetchIsFatal ==
    /\ \A n \in 1..NFiles : Count(fetched, ExpectedUrl(n)) <= 1
    /\ \A n \in 1..NFiles :
         (/\ ExpectedUrl(n) \in Range(fetched)
          /\ ~ValidIn(dir, n)
          /\ err # "URLError") =>
            /\ pc = "idle"
            /\ err = ErrCorruptFile
            /\ n \notin extracted
            /\ \A m \in 1..NFiles :
                 m > n => m \notin extracted /\ ExpectedUrl(m) \notin Range(fetched)
            /\ images = <<>>
            /\ targets = <<>>
            /\ ~ret.called

C7_Witness ==
    /\ pc = "idle"
    /\ err = ErrCorruptFile
    /\ \E n \in 1..NFiles :
         /\ n < NFiles
         /\ fetched[Len(fetched)] = ExpectedUrl(n)
         /\ ~ValidIn(dir, n)
         /\ ~ValidIn(dir, n + 1)


(***************************************************************************)
(* C2, as stated: on a constructed dataset, __getitem__(i) with            *)
(* 0 <= i < len(dataset) returns a pair whose label is the integer parsed  *)
(* from the second field of row i of the split file. It is read here in    *)
(* its most favourable sense: no transforms callable is given and the      *)
(* image of row i is in the directory.                                     *)
(***************************************************************************)
C2_EveryValidIndexReturnsRowLabel ==
    (/\ pc = "ready" /\ ret.called /\ 0 <= ret.index /\ ret.index < DatasetLen
     /\ transforms = "None"
     /\ FirstField(SplitLines[ret.index + 1]) \in DOMAIN dir
     /\ dir[FirstField(SplitLines[ret.index + 1])].ex) =>
        LET label == SecondField(SplitLines[ret.index + 1])
        IN  /\ ret.exc = ""
            /\ IsLiteral(label)
            /\ ret.label = LiteralValue(label)

(***************************************************************************)
(* C2, amended. On a constructed dataset, __getitem__(i) with              *)
(* 0 <= i < len(dataset) raises when the image path of row i does not      *)
(* resolve to a file, raises ValueError when int() rejects the second      *)
(* field of row i, and otherwise forms the pair of the image of row i and  *)
(* the integer parsed from its second field, rows in file order; it        *)
(* returns that pair when transforms is None and what the transforms       *)
(* callable makes of it otherwise.                                         *)
(***************************************************************************)
C2_ValidIndexYieldsRowLabelOrRaises ==
    (pc = "ready" /\ ret.called /\ 0 <= ret.index /\ ret.index < DatasetLen) =>
        LET line == SplitLines[ret.index + 1]
            img == FirstField(line)
            label == SecondField(line)
            found == img \in DOMAIN dir /\ dir[img].ex
        IN  /\ DatasetLen = Len(SplitLines)
            /\ ret.exc \in {"", "FileNotFoundError", "ValueError"}
            /\ ret.exc = "FileNotFoundError" <=> ~found
            /\ ret.exc = "ValueError" <=> (found /\ ~IsLiteral(label))
            /\ ret.exc = "" =>
                 IF transforms = "None"
                 THEN ret.image = img /\ ret.label = LiteralValue(label)
                 ELSE <<ret.image, ret.label>> = Relabel(img, LiteralValue(label))

C2_Witness ==
    /\ pc = "ready"
    /\ ret.called
    /\ ret.index = 2
    /\ DatasetLen = 3
    /\ ret.exc = ""
    /\ transforms = "None"
    /\ ret.label = 7

(***************************************************************************)
(* C3, as stated: __getitem__(index) with an index outside                 *)
(* 0..len(dataset)-1 raises a bounds error.                                *)
(***************************************************************************)
C3_OutsideZeroToLenRaises ==
    (pc = "ready" /\ ret.called /\ (ret.index < 0 \/ ret.index >= DatasetLen)) =>
        ret.exc = "IndexError"

(***************************************************************************)
(* C3, amended. __getitem__(index) raises IndexError, and returns no       *)
(* sample, exactly when index >= len(dataset) or index < -len(dataset); in *)
(* particular index == len(dataset) raises. An index with                  *)
(* -len(dataset) <= index < 0 is served as index + len(dataset) is.        *)
(***************************************************************************)
C3_IndexErrorOutsideMinusLenToLen ==
    (pc = "ready" /\ ret.called) =>
        /\ ret.exc = "IndexError" <=>
             (ret.index >= DatasetLen \/ ret.index < 0 - DatasetLen)
        /\ ret.exc = "IndexError" => ret.image = <<>> /\ ret.label = 0
        /\ (0 - DatasetLen <= ret.index /\ ret.index < 0 /\ ret.exc = "") =>
             LET line == SplitLines[DatasetLen + ret.index + 1]
                 out == IF transforms = "None"
                        THEN <<FirstField(line), LiteralValue(SecondField(line))>>
                        ELSE Relabel(FirstField(line), LiteralValue(SecondField(line)))
             IN  <<ret.image, ret.label>> = out

C3_Witness ==
    /\ pc = "ready"
    /\ ret.called
    /\ DatasetLen > 0
    /\ ret.index = DatasetLen
    /\ ret.exc = "IndexError"

(***************************************************************************)
(* C8, as stated: no instance is built from a split file that is absent    *)
(* or has a row that is not a path followed by a numeric label.            *)
(***************************************************************************)
C8_MalformedSplitNeverConstructs ==
    pc = "ready" =>
        /\ filename(split) \in DOMAIN dir /\ dir[filename(split)].ex
        /\ \A k \in 1..Len(SplitLines) :
             /\ FieldCount(SplitLines[k]) = 2
             /\ IsLiteral(SecondField(SplitLines[k]))

(***************************************************************************)
(* C8, amended. Building the index fails at construction time exactly      *)
(* when the split file is absent (FileNotFoundError) or has a row with     *)
(* fewer than two fields (IndexError). A row with two or more fields is    *)
(* taken as it is: its first field as the image path, its second as the    *)
(* label string, whether numeric or not.                                   *)
(***************************************************************************)
C8_IndexFailsOnAbsentOrShortRow ==
    LET there == filename(split) \in DOMAIN dir /\ dir[filename(split)].ex
        short == \E k \in 1..Len(SplitLines) : FieldCount(SplitLines[k]) < 2
    IN  /\ pc = "ready" =>
              /\ there /\ ~short
              /\ Len(images) = Len(SplitLines)
              /\ Len(targets) = Len(SplitLines)
              /\ \A k \in 1..Len(SplitLines) :
                   /\ images[k] = FirstField(SplitLines[k])
                   /\ targets[k] = SecondField(SplitLines[k])
        /\ (pc = "idle" /\ err = "FileNotFoundError") => ~there
        /\ (pc = "idle" /\ err = "IndexError") => there /\ short

C8_Witness ==
    /\ pc = "ready"
    /\ \E k \in 1..Len(targets) : ~IsLiteral(targets[k])
    /\ \E k \in 1..Len(SplitLines) : FieldCount(SplitLines[k]) = 3

(***************************************************************************)
(* C6, as stated: whenever download() has returned normally, every listed  *)
(* .tbz file is extracted into the directory and every listed .bz2 file is *)
(* decompressed there, and after a construction with download=True the     *)
(* split file and every image path of the index resolve to files.          *)
(***************************************************************************)
C6_DownloadReturnedMeansExtracted ==
    /\ DownloadReturned =>
         \A n \in 1..NFiles :
            /\ filenames[n][Len(filenames[n])] = ".tbz" =>
                 \A p \in Members(filenames[n]) : dir[p].ex
            /\ filenames[n][Len(filenames[n])] = ".bz2" =>
                 \E p \in DOMAIN dir :
                    /\ p \o <<".bz2">> = filenames[n]
                    /\ dir[p] = File(PublishedSplit(filenames[n][2]))
    /\ (download /\ pc = "ready") =>
         /\ dir[filename(split)].ex
         /\ \A k \in 1..Len(images) : images[k] \in DOMAIN dir /\ dir[images[k]].ex

(***************************************************************************)
(* C10. Extraction and decompression leave the listed files as they are:   *)
(* decompressing a .bz2 file writes only the file named as the archive     *)
(* without its .bz2 suffix, extracting a .tbz file writes only its         *)
(* members. So the integrity check that follows a download() that          *)
(* returned normally passes, and a construction with download=True never   *)
(* raises the constructor's RuntimeError.                                  *)
(***************************************************************************)
ExtractKeepsArchives ==
    pc = "extract" =>
        /\ DOMAIN dir' = DOMAIN dir
        /\ \A n \in 1..NFiles : dir'[filenames[n]] = dir[filenames[n]]
        /\ \A p \in DOMAIN dir :
             dir'[p] # dir[p] =>
                IF filenames[i][Len(filenames[i])] = ".bz2"
                THEN p \o <<".bz2">> = filenames[i]
                ELSE p \in Members(filenames[i])

C10_ExtractionKeepsArchives ==
    /\ [][ExtractKeepsArchives]_vars
    /\ []((download /\ pc = "verify") => AllValidIn(dir))
    /\ [](download => err # ErrCorruptDataset)

C10_Witness ==
    /\ download
    /\ pc = "index"
    /\ Len(fetched) = NFiles
    /\ extracted = 1..NFiles


(***************************************************************************)
(* The specification of the fixture generator: the script is run MaxRuns   *)
(* times in a working directory where su_sar_moisture_content is missing,  *)
(* a plain file, or a directory holding anything, and the archive is       *)
(* missing or left by an earlier run.                                      *)
(***************************************************************************)
CowcInitIdle ==
    /\ dir = [p \in Paths |-> Absent]
    /\ dir0 = dir
    /\ pc = "off"
    /\ split = "train"
    /\ download = FALSE
    /\ transforms = "None"
    /\ i = 0
    /\ fetched = <<>>
    /\ extracted = {}
    /\ err = ""
    /\ images = <<>>
    /\ targets = <<>>
    /\ ret = NoRet

InitFixture ==
    /\ fx_tree \in {NoTree, [kind |-> "file", kids |-> NoKids]}
                   \cup {[kind |-> "dir", kids |-> k] : k \in [FxNames -> StaleKids]}
    /\ fx_archive \in {NoArchive, [ex |-> TRUE, kids |-> NoKids, stamp |-> "t0"]}
    /\ fx_pc = "start"
    /\ fx_i = 0
    /\ fx_runs = 0
    /\ fx_first = NoTree
    /\ fx_prior = fx_tree
    /\ CowcInitIdle

NextFixture ==
    \/ RemoveOld
    \/ MakeRoot
    \/ MakeSample
    \/ WriteLabels
    \/ WriteStac
    \/ Compress
    \/ Checksum
    \/ RunAgain

SpecFixture == InitFixture /\ [][NextFixture]_vars

(***************************************************************************)
(* C9. The fixture generator is idempotent on its output tree: from any    *)
(* prior state of the su_sar_moisture_content directory, stale entries     *)
(* included, every run ends and leaves exactly the NUM_SAMPLES sample      *)
(* directories su_sar_moisture_content_0 .. NUM_SAMPLES-1, each holding    *)
(* labels.geojson and stac.json and nothing else, and a later run leaves   *)
(* the tree the first run left, file contents included.                    *)
(***************************************************************************)
C9_FixtureIdempotent ==
    fx_prior.kind # "file" =>
        /\ fx_pc # "failed"
        /\ fx_pc = "done" =>
             /\ fx_tree.kind = "dir"
             /\ \A n \in 0..NUM_SAMPLES :
                  LET kid == fx_tree.kids[<<data_dir, "_", DigitChars[n + 1]>>]
                  IN  IF n < NUM_SAMPLES
                      THEN /\ kid.kind = "dir"
                           /\ kid.labels.ex /\ kid.labels.data # <<>>
                           /\ kid.stac.ex /\ kid.stac.data # <<>>
                           /\ kid.labels # kid.stac
                           /\ ~kid.junk
                      ELSE kid.kind = "none"
        /\ (fx_pc = "done" /\ fx_runs >= 2) => fx_tree = fx_first

C9_Witness ==
    /\ fx_pc = "done"
    /\ fx_runs = 2
    /\ fx_prior.kind = "dir"
    /\ fx_prior.kids[<<data_dir, "_", "3">>].kind = "dir"
    /\ fx_prior.kids[<<data_dir, "_", "0">>].junk
    /\ fx_prior.kids[<<data_dir, "_", "1">>].kind = "file"

====
